---- MODULE Spec2Model ----
(***************************************************************************)
(* Quoridor rules engine and turn harness (src/src/quoridor_env.py,        *)
(* src/src/graph_state.py, src/src/action.py, src/src/configs.py).         *)
(*                                                                         *)
(* Cells are pairs <<row, col>> with 0-based coordinates, as in the code.  *)
(* A neighbour list of the adjacency dict is modelled as a set: the code   *)
(* never stores a duplicate in it and only tests membership.               *)
(***************************************************************************)
EXTENDS Integers, Sequences, FiniteSets, TLC

\* ---------------------------------------------------------------- bounds
\* Config.N, Config.W and Config.MAX_MOVES are 9, 9 and 250 in the source;
\* the model checks the same code on a small board with a short move cap.
N == 4
W == 1
MAX_MOVES == 3

\* ------------------------------------------------------------- constants
P1 == 0
P2 == 1
\* the draw sentinel returned by game_loop
DRAW == 0 - 1

\* Config(): the instance held by GraphState.config and by QuoridorEnv.s
Config == [N |-> N, W |-> W, P1 |-> P1, P2 |-> P2, MAX_MOVES |-> MAX_MOVES]

Players == {P1, P2}
\* the cells (row, col) of an n x n board
Cells(n) == (0 .. n - 1) \X (0 .. n - 1)

\* ------------------------------------------------------------ GraphState

\* GraphState._construct_graph: every cell linked to its in-bounds
\* 4-neighbourhood.
ConstructGraph(n) ==
    [c \in Cells(n) |->
        {d \in Cells(n) :
            \/ (d[1] = c[1] - 1 /\ d[2] = c[2])
            \/ (d[1] = c[1] + 1 /\ d[2] = c[2])
            \/ (d[1] = c[1] /\ d[2] = c[2] - 1)
            \/ (d[1] = c[1] /\ d[2] = c[2] + 1)}]

\* GraphState._init_state
InitState(config) ==
    [config       |-> config,
     graph        |-> ConstructGraph(config.N),
     player_pos   |-> [p \in Players |->
                          IF p = 0 THEN <<0, config.N \div 2>>
                                   ELSE <<config.N - 1, config.N \div 2>>],
     goal_y       |-> [p \in Players |-> IF p = 0 THEN config.N - 1 ELSE 0],
     walls_left   |-> [p \in Players |-> config.W],
     placed_walls |-> {}]

\* GraphState.is_edge: pos2 in graph.get(pos1, [])
is_edge(g, pos1, pos2) == pos1 \in DOMAIN g /\ pos2 \in g[pos1]

\* variant: only the direction pos1 -> pos2 is removed
remove_connection_one_way(g, pos1, pos2) ==
    IF pos1 \in DOMAIN g /\ pos2 \in g[pos1]
    THEN [g EXCEPT ![pos1] = @ \ {pos2}] ELSE g

\* GraphState.remove_connection: each direction removed only when present
remove_connection(g, pos1, pos2) ==
    LET g1 == IF pos1 \in DOMAIN g /\ pos2 \in g[pos1]
              THEN [g EXCEPT ![pos1] = @ \ {pos2}] ELSE g
    IN  IF pos2 \in DOMAIN g1 /\ pos1 \in g1[pos2]
        THEN [g1 EXCEPT ![pos2] = @ \ {pos1}] ELSE g1

\* ---------------------------------------------------------------- actions

\* tuple order of Python on cells and on pairs of cells
PosLess(p, q) == p[1] < q[1] \/ (p[1] = q[1] /\ p[2] < q[2])
SortedEdge(e) == IF PosLess(e[2], e[1]) THEN <<e[2], e[1]>> ELSE e
EdgeLess(e, f) == PosLess(e[1], f[1]) \/ (e[1] = f[1] /\ PosLess(e[2], f[2]))

\* str() of a coordinate and of a sorted edge, as an f-string prints them
Digits == <<"0", "1", "2", "3", "4", "5", "6", "7", "8", "9">>
IntStr(i) == IF i \in 0 .. 9 THEN Digits[i + 1] ELSE "?"
PosStr(p) == "(" \o IntStr(p[1]) \o ", " \o IntStr(p[2]) \o ")"
EdgeStr(e) == "(" \o PosStr(e[1]) \o ", " \o PosStr(e[2]) \o ")"

\* variant: the two sorted edges are printed in the order they were given
get_move_name_pairs_unsorted(edge1, edge2) ==
    EdgeStr(SortedEdge(edge1)) \o "_" \o EdgeStr(SortedEdge(edge2))

\* WallAction.get_move_name: each edge sorted, the two edges sorted, then
\* formatted as "<edge>_<edge>"
get_move_name(edge1, edge2) ==
    LET e1 == SortedEdge(edge1)
        e2 == SortedEdge(edge2)
        edges_sorted == IF EdgeLess(e2, e1) THEN <<e2, e1>> ELSE <<e1, e2>>
    IN  EdgeStr(edges_sorted[1]) \o "_" \o EdgeStr(edges_sorted[2])

NoEdge == <<>>

\* the three Action dataclasses; a field a class does not have is blank
MovementAction(name, idx, dx, dy) ==
    [kind |-> "MovementAction", name |-> name, idx |-> idx,
     dx |-> dx, dy |-> dy, edge1 |-> NoEdge, edge2 |-> NoEdge]

BlockedMovementAction(name, idx, dx, dy) ==
    [kind |-> "BlockedMovementAction", name |-> name, idx |-> idx,
     dx |-> dx, dy |-> dy, edge1 |-> NoEdge, edge2 |-> NoEdge]

\* WallAction with __post_init__ overwriting the name
WallAction(idx, edge1, edge2) ==
    [kind |-> "WallAction", name |-> get_move_name(edge1, edge2), idx |-> idx,
     dx |-> 0, dy |-> 0, edge1 |-> edge1, edge2 |-> edge2]

\* an edge as the caller writes it: as it is, or its two cells swapped
Arrange(e, swapped) == IF swapped THEN <<e[2], e[1]>> ELSE e

\* the WallAction objects a caller can build for the wall w with the index
\* of w: the two edges in either order, the cells of each in either order
Reordered(w) ==
    {WallAction(w.idx,
                Arrange(IF pairs THEN w.edge2 ELSE w.edge1, first),
                Arrange(IF pairs THEN w.edge1 ELSE w.edge2, second)) :
        pairs \in BOOLEAN, first \in BOOLEAN, second \in BOOLEAN}

\* ActionSpace.player_movement, in dict order: name, (dy, dx)
player_movement ==
    << <<"up", <<0 - 1, 0>> >>, <<"right", <<0, 1>> >>,
       <<"left", <<0, 0 - 1>> >>, <<"down", <<1, 0>> >> >>

\* ActionSpace.blocked_movement, in dict order
blocked_movement ==
    << <<"jump_up", <<0 - 2, 0>> >>, <<"jump_down", <<2, 0>> >>,
       <<"jump_left", <<0, 0 - 2>> >>, <<"jump_right", <<0, 2>> >>,
       <<"up_left", <<0 - 1, 0 - 1>> >>, <<"up_right", <<0 - 1, 1>> >>,
       <<"down_left", <<1, 0 - 1>> >>, <<"down_right", <<1, 1>> >> >>

blocked_movement_idx_start == Len(player_movement)
wall_vertical_idx_start == blocked_movement_idx_start + Len(blocked_movement)
wall_vertical_space(n) == (n - 1) * (n + 1)
\* variant: the horizontal block starts after the anchors in use
wall_horizontal_idx_start_packed(n) ==
    wall_vertical_idx_start + (n - 1) * (n - 1)
wall_horizontal_idx_start(n) == wall_vertical_idx_start + wall_vertical_space(n)
wall_horizontal_space(n) == (n - 1) * (n + 1)
action_space(n) ==
    Len(player_movement) + Len(blocked_movement)
        + wall_vertical_space(n) + wall_horizontal_space(n)

\* list.index on the values of blocked_movement (0-based)
moves_index(d) ==
    (CHOOSE i \in 1 .. Len(blocked_movement) : blocked_movement[i][2] = d) - 1

\* variant: the horizontal walls are numbered from the vertical block's start
HorizontalWall_vertical_block(n, row_idx, col_idx) ==
    WallAction(wall_vertical_idx_start + row_idx * (n - 1) + col_idx,
               << <<row_idx, col_idx>>, <<row_idx + 1, col_idx>> >>,
               << <<row_idx, col_idx + 1>>, <<row_idx + 1, col_idx + 1>> >>)

\* the candidate walls built by get_all_wall_moves at anchor (row, col) of
\* an n x n board; idx counts the anchors scanned before this one
HorizontalWall(n, row_idx, col_idx) ==
    WallAction(wall_horizontal_idx_start(n) + row_idx * (n - 1) + col_idx,
               << <<row_idx, col_idx>>, <<row_idx + 1, col_idx>> >>,
               << <<row_idx, col_idx + 1>>, <<row_idx + 1, col_idx + 1>> >>)

VerticalWall(n, row_idx, col_idx) ==
    WallAction(wall_vertical_idx_start + row_idx * (n - 1) + col_idx,
               << <<row_idx, col_idx>>, <<row_idx, col_idx + 1>> >>,
               << <<row_idx + 1, col_idx>>, <<row_idx + 1, col_idx + 1>> >>)

\* ------------------------------------------------------- wall legality

\* variant: the wall's own two segments are looked up, not the transposed
wall_is_crossed_own_segments(s, wall) ==
    LET p1 == wall.edge1[1]
        p2 == wall.edge1[2]
        p3 == wall.edge2[1]
        p4 == wall.edge2[2]
    IN  <<p1, p2>> \in s.placed_walls /\ <<p3, p4>> \in s.placed_walls

\* GraphState._wall_is_crossed: the transposed pairing (p1,p3), (p2,p4)
wall_is_crossed(s, wall) ==
    LET p1 == wall.edge1[1]
        p2 == wall.edge1[2]
        p3 == wall.edge2[1]
        p4 == wall.edge2[2]
    IN  <<p1, p3>> \in s.placed_walls /\ <<p2, p4>> \in s.placed_walls

\* the cells the BFS of can_reach_goal_row visits from a frontier
RECURSIVE Visited(_, _, _)
Visited(g, frontier, visited) ==
    LET next == (UNION {IF c \in DOMAIN g THEN g[c] ELSE {} : c \in frontier})
                    \ visited
    IN  IF next = {} THEN visited ELSE Visited(g, next, visited \cup next)

\* can_reach_goal_row: some visited cell lies on goal_row
can_reach_goal_row(g, start, goal_row) ==
    \E c \in Visited(g, {start}, {start}) : c[1] = goal_row

\* variant: the reachability simulation is skipped
wall_blocks_any_player_skipped(s, wall) == FALSE

\* GraphState._wall_blocks_any_player: BFS on a copy without the two edges
wall_blocks_any_player(s, wall) ==
    LET graph_copy ==
            remove_connection(
                remove_connection(s.graph, wall.edge1[1], wall.edge1[2]),
                wall.edge2[1], wall.edge2[2])
    IN  \E p \in Players :
            ~can_reach_goal_row(graph_copy, s.player_pos[p], s.goal_y[p])

\* variant: only the first of the two edges is required to exist
possible_wall_first_edge_only(s, wall) ==
    /\ is_edge(s.graph, wall.edge1[1], wall.edge1[2])
    /\ ~wall_is_crossed(s, wall)
    /\ ~wall_blocks_any_player(s, wall)

\* GraphState.possible_wall
possible_wall(s, wall) ==
    /\ is_edge(s.graph, wall.edge1[1], wall.edge1[2])
    /\ is_edge(s.graph, wall.edge2[1], wall.edge2[2])
    /\ ~wall_is_crossed(s, wall)
    /\ ~wall_blocks_any_player(s, wall)

\* anchors in the scan order of the two nested loops
AnchorSeq(n) == [i \in 1 .. (n - 1) * (n - 1) |->
                    <<(i - 1) \div (n - 1), (i - 1) % (n - 1)>>]

\* GraphState.get_all_wall_moves: horizontal candidates, then vertical
get_all_wall_moves(s) ==
    LET n == s.config.N
        anchors == AnchorSeq(n)
        hor == [i \in DOMAIN anchors |->
                   HorizontalWall(n, anchors[i][1], anchors[i][2])]
        ver == [i \in DOMAIN anchors |->
                   VerticalWall(n, anchors[i][1], anchors[i][2])]
        ok(w) == possible_wall(s, w)
    IN  SelectSeq(hor, ok) \o SelectSeq(ver, ok)

\* variant: each edge is cut in the direction it is written only
execute_wall_action_one_way(s, action) ==
    [s EXCEPT
        !.graph = [@ EXCEPT ![action.edge1[1]] = @ \ {action.edge1[2]},
                            ![action.edge2[1]] = @ \ {action.edge2[2]}],
        !.placed_walls = @ \cup {<<action.edge1[1], action.edge1[2]>>,
                                 <<action.edge2[1], action.edge2[2]>>}]

\* variant: only the first segment is entered in the ledger
execute_wall_action_one_segment(s, action) ==
    [s EXCEPT
        !.graph = remove_connection(
                      remove_connection(@, action.edge1[1], action.edge1[2]),
                      action.edge2[1], action.edge2[2]),
        !.placed_walls = @ \cup {<<action.edge1[1], action.edge1[2]>>}]

\* GraphState.execute_wall_action
\* variant: the edges are removed but the segments are not entered in the
\* ledger
execute_wall_action_unrecorded(s, action) ==
    [s EXCEPT
        !.graph = remove_connection(
                      remove_connection(@, action.edge1[1], action.edge1[2]),
                      action.edge2[1], action.edge2[2])]

execute_wall_action(s, action) ==
    [s EXCEPT
        !.graph = remove_connection(
                      remove_connection(@, action.edge1[1], action.edge1[2]),
                      action.edge2[1], action.edge2[2]),
        !.placed_walls = @ \cup {<<action.edge1[1], action.edge1[2]>>,
                                 <<action.edge2[1], action.edge2[2]>>}]

\* ------------------------------------------------ legal move generation

\* the class of the object x defines an __eq__ of its own
overrides_eq(x) == "eq" \in DOMAIN x

\* Python "a == x" for an Action a of a legal list: the dataclass __eq__ of
\* a compares the fields when x is of the very class of a and returns
\* NotImplemented otherwise, and then the __eq__ of the class of x answers
PyEq(a, x) == IF overrides_eq(x) THEN x.eq = "True" ELSE a = x

\* Python "x in list"
Contains(list, x) == \E i \in DOMAIN list : PyEq(list[i], x)

\* the BlockedMovementAction of displacement (dy, dx), looked up in the table
BlockedAction(dy, dx) ==
    LET idx == moves_index(<<dy, dx>>)
    IN  BlockedMovementAction(blocked_movement[idx + 1][1],
                              blocked_movement_idx_start + idx, dx, dy)

\* variant: only the straight jump is offered, never a diagonal
get_player_blocked_actions_jump_only(s, to_move) ==
    LET player_pos == s.player_pos[to_move]
        opponent_pos == s.player_pos[1 - to_move]
        jump_dy == 2 * (opponent_pos[1] - player_pos[1])
        jump_dx == 2 * (opponent_pos[2] - player_pos[2])
    IN  IF is_edge(s.graph, opponent_pos,
                   <<player_pos[1] + jump_dy, player_pos[2] + jump_dx>>)
        THEN <<BlockedAction(jump_dy, jump_dx)>>
        ELSE <<>>

\* variant: the diagonals are appended although the jump is possible
get_player_blocked_actions_no_preempt(s, to_move) ==
    LET player_pos == s.player_pos[to_move]
        opponent_pos == s.player_pos[1 - to_move]
        dy == opponent_pos[1] - player_pos[1]
        dx == opponent_pos[2] - player_pos[2]
        jump_dy == 2 * dy
        jump_dx == 2 * dx
        jump == IF is_edge(s.graph, opponent_pos,
                           <<player_pos[1] + jump_dy, player_pos[2] + jump_dx>>)
                THEN <<BlockedAction(jump_dy, jump_dx)>>
                ELSE <<>>
        diagonal_dys == IF dx # 0 THEN <<0 - 1, 1>> ELSE <<>>
        diagonal_dxs == IF dy # 0 THEN <<0 - 1, 1>> ELSE <<>>
        side_y(i) ==
            IF is_edge(s.graph, opponent_pos,
                       <<opponent_pos[1] + diagonal_dys[i], opponent_pos[2]>>)
            THEN <<BlockedAction(diagonal_dys[i], dx)>>
            ELSE <<>>
        side_x(i) ==
            IF is_edge(s.graph, opponent_pos,
                       <<opponent_pos[1], opponent_pos[2] + diagonal_dxs[i]>>)
            THEN <<BlockedAction(dy, diagonal_dxs[i])>>
            ELSE <<>>
    IN  jump
        \o (IF diagonal_dys # <<>> THEN side_y(1) \o side_y(2) ELSE <<>>)
        \o (IF diagonal_dxs # <<>> THEN side_x(1) \o side_x(2) ELSE <<>>)

\* variant: the side steps are tested from the mover's own cell
get_player_blocked_actions_own_cell(s, to_move) ==
    LET player_pos == s.player_pos[to_move]
        opponent_pos == s.player_pos[1 - to_move]
        dy == opponent_pos[1] - player_pos[1]
        dx == opponent_pos[2] - player_pos[2]
        jump_dy == 2 * dy
        jump_dx == 2 * dx
        jump == IF is_edge(s.graph, opponent_pos,
                           <<player_pos[1] + jump_dy, player_pos[2] + jump_dx>>)
                THEN <<BlockedAction(jump_dy, jump_dx)>>
                ELSE <<>>
        diagonal_dys == IF dx # 0 THEN <<0 - 1, 1>> ELSE <<>>
        diagonal_dxs == IF dy # 0 THEN <<0 - 1, 1>> ELSE <<>>
        side_y(i) ==
            IF is_edge(s.graph, player_pos,
                       <<player_pos[1] + diagonal_dys[i], player_pos[2]>>)
            THEN <<BlockedAction(diagonal_dys[i], dx)>>
            ELSE <<>>
        side_x(i) ==
            IF is_edge(s.graph, player_pos,
                       <<player_pos[1], player_pos[2] + diagonal_dxs[i]>>)
            THEN <<BlockedAction(dy, diagonal_dxs[i])>>
            ELSE <<>>
    IN  IF jump # <<>>
        THEN jump
        ELSE (IF diagonal_dys # <<>> THEN side_y(1) \o side_y(2) ELSE <<>>)
             \o (IF diagonal_dxs # <<>> THEN side_x(1) \o side_x(2) ELSE <<>>)

\* variant: the jump is offered without looking at the edge behind the opponent
get_player_blocked_actions_jump_unchecked(s, to_move) ==
    LET player_pos == s.player_pos[to_move]
        opponent_pos == s.player_pos[1 - to_move]
    IN  <<BlockedAction(2 * (opponent_pos[1] - player_pos[1]),
                        2 * (opponent_pos[2] - player_pos[2]))>>

\* variant: the diagonals are offered without looking at the opponent's side
\* edges
get_player_blocked_actions_sides_unchecked(s, to_move) ==
    LET player_pos == s.player_pos[to_move]
        opponent_pos == s.player_pos[1 - to_move]
        dy == opponent_pos[1] - player_pos[1]
        dx == opponent_pos[2] - player_pos[2]
    IN  IF is_edge(s.graph, opponent_pos,
                   <<player_pos[1] + 2 * dy, player_pos[2] + 2 * dx>>)
        THEN <<BlockedAction(2 * dy, 2 * dx)>>
        ELSE IF dx # 0
        THEN <<BlockedAction(0 - 1, dx), BlockedAction(1, dx)>>
        ELSE <<BlockedAction(dy, 0 - 1), BlockedAction(dy, 1)>>

\* QuoridorEnv._get_player_blocked_actions
get_player_blocked_actions(s, to_move) ==
    LET player_pos == s.player_pos[to_move]
        opponent_pos == s.player_pos[1 - to_move]
        dy == opponent_pos[1] - player_pos[1]
        dx == opponent_pos[2] - player_pos[2]
        jump_dy == 2 * dy
        jump_dx == 2 * dx
        jump == IF is_edge(s.graph, opponent_pos,
                           <<player_pos[1] + jump_dy, player_pos[2] + jump_dx>>)
                THEN <<BlockedAction(jump_dy, jump_dx)>>
                ELSE <<>>
        diagonal_dys == IF dx # 0 THEN <<0 - 1, 1>> ELSE <<>>
        diagonal_dxs == IF dy # 0 THEN <<0 - 1, 1>> ELSE <<>>
        side_y(i) ==
            IF is_edge(s.graph, opponent_pos,
                       <<opponent_pos[1] + diagonal_dys[i], opponent_pos[2]>>)
            THEN <<BlockedAction(diagonal_dys[i], dx)>>
            ELSE <<>>
        side_x(i) ==
            IF is_edge(s.graph, opponent_pos,
                       <<opponent_pos[1], opponent_pos[2] + diagonal_dxs[i]>>)
            THEN <<BlockedAction(dy, diagonal_dxs[i])>>
            ELSE <<>>
    IN  IF jump # <<>>
        THEN jump
        ELSE (IF diagonal_dys # <<>> THEN side_y(1) \o side_y(2) ELSE <<>>)
             \o (IF diagonal_dxs # <<>> THEN side_x(1) \o side_x(2) ELSE <<>>)

\* variant: the opponent's cell is not told apart from a free cell
movement_for_onto_opponent(s, to_move, idx) ==
    LET name == player_movement[idx + 1][1]
        dy == player_movement[idx + 1][2][1]
        dx == player_movement[idx + 1][2][2]
        y == s.player_pos[to_move][1]
        x == s.player_pos[to_move][2]
    IN  IF ~is_edge(s.graph, <<y, x>>, <<y + dy, x + dx>>)
        THEN <<>>
        ELSE <<MovementAction(name, idx, dx, dy)>>

\* one iteration of the loop of _get_player_movement_actions (idx is 0-based)
movement_for(s, to_move, idx) ==
    LET name == player_movement[idx + 1][1]
        dy == player_movement[idx + 1][2][1]
        dx == player_movement[idx + 1][2][2]
        y == s.player_pos[to_move][1]
        x == s.player_pos[to_move][2]
        opponent == 1 - to_move
    IN  IF ~is_edge(s.graph, <<y, x>>, <<y + dy, x + dx>>)
        THEN <<>>
        ELSE IF <<y + dy, x + dx>> = s.player_pos[opponent]
        THEN get_player_blocked_actions(s, to_move)
        ELSE <<MovementAction(name, idx, dx, dy)>>

\* QuoridorEnv._get_player_movement_actions
get_player_movement_actions(s, to_move) ==
    movement_for(s, to_move, 0) \o movement_for(s, to_move, 1)
        \o movement_for(s, to_move, 2) \o movement_for(s, to_move, 3)

\* variant: the simulation removes the two edges from the adjacency of the
\* GraphState itself
wall_simulation_leaves_shared(s, new_wall) ==
    [s EXCEPT !.graph =
        remove_connection(
            remove_connection(@, new_wall.edge1[1], new_wall.edge1[2]),
            new_wall.edge2[1], new_wall.edge2[2])]

\* the GraphState a call of _wall_blocks_any_player leaves behind: the two
\* edges are removed from graph_copy, a new dict of new sets, and self is
\* only read
wall_simulation_leaves(s, new_wall) == s

\* the candidates of get_all_wall_moves in scan order
wall_candidates(s) ==
    LET n == s.config.N
        anchors == AnchorSeq(n)
    IN  [i \in DOMAIN anchors |->
            HorizontalWall(n, anchors[i][1], anchors[i][2])]
        \o [i \in DOMAIN anchors |->
            VerticalWall(n, anchors[i][1], anchors[i][2])]

\* the GraphState get_all_wall_moves leaves behind, from candidate i on:
\* possible_wall runs the simulation on the candidates that pass its first
\* two tests
RECURSIVE after_wall_moves(_, _, _)
after_wall_moves(s, candidates, i) ==
    IF i > Len(candidates)
    THEN s
    ELSE LET wall == candidates[i]
             simulated ==
                 /\ is_edge(s.graph, wall.edge1[1], wall.edge1[2])
                 /\ is_edge(s.graph, wall.edge2[1], wall.edge2[2])
                 /\ ~wall_is_crossed(s, wall)
         IN  after_wall_moves(
                 IF simulated THEN wall_simulation_leaves(s, wall) ELSE s,
                 candidates, i + 1)

\* the GraphState get_all_legal_actions leaves behind: the pawn moves only
\* read it, the walls are scanned when the player has one left
after_get_all_legal_actions(s, to_move) ==
    IF s.walls_left[to_move] = 0
    THEN s
    ELSE after_wall_moves(s, wall_candidates(s), 1)

\* variant: the remaining wall count is not consulted
get_wall_actions_unguarded(s, to_move) == get_all_wall_moves(s)

\* QuoridorEnv._get_wall_actions
get_wall_actions(s, to_move) ==
    IF s.walls_left[to_move] = 0 THEN <<>> ELSE get_all_wall_moves(s)

\* variant: the wall actions are listed before the pawn moves
get_all_legal_actions_walls_first(s, to_move) ==
    get_wall_actions(s, to_move) \o get_player_movement_actions(s, to_move)

\* QuoridorEnv.get_all_legal_actions
get_all_legal_actions(s, to_move) ==
    get_player_movement_actions(s, to_move) \o get_wall_actions(s, to_move)

\* ------------------------------------------------------ rule application

\* variant: the row is compared with the other player's goal row
check_win_other_goal(s, to_move) ==
    s.goal_y[1 - to_move] = s.player_pos[to_move][1]

\* QuoridorEnv.check_win
check_win(s, to_move) == s.goal_y[to_move] = s.player_pos[to_move][1]

\* variant: the pawn of the player who is not moving is displaced
execute_player_movement_opponent(s, to_move, action) ==
    [s EXCEPT !.player_pos[1 - to_move] = <<@[1] + action.dy, @[2] + action.dx>>]

\* variant: the displacement is added with its components exchanged
execute_player_movement_swapped(s, to_move, action) ==
    [s EXCEPT !.player_pos[to_move] = <<@[1] + action.dx, @[2] + action.dy>>]

\* QuoridorEnv._execute_player_movement
execute_player_movement(s, to_move, action) ==
    [s EXCEPT !.player_pos[to_move] = <<@[1] + action.dy, @[2] + action.dx>>]

\* variant: the wall is charged to the player who is not moving
env_execute_wall_action_other_counter(s, to_move, action) ==
    [execute_wall_action(s, action) EXCEPT !.walls_left[1 - to_move] = @ - 1]

\* QuoridorEnv._execute_wall_action
env_execute_wall_action(s, to_move, action) ==
    [execute_wall_action(s, action) EXCEPT !.walls_left[to_move] = @ - 1]

\* use_action raises ValueError on anything that is not one of the classes
use_action_raises(action) ==
    action.kind \notin {"MovementAction", "BlockedMovementAction", "WallAction"}

\* QuoridorEnv.use_action
use_action(s, to_move, action) ==
    IF action.kind \in {"MovementAction", "BlockedMovementAction"}
    THEN execute_player_movement(s, to_move, action)
    ELSE IF action.kind = "WallAction"
    THEN env_execute_wall_action(s, to_move, action)
    ELSE s

\* ---------------------------------------------------- agent arbitration

\* Python None as an optional value: <<>> is None, <<v>> is the value v
NoneVal == <<>>
Some(v) == <<v>>

\* a returned object that is no Action at all (None, a string, ...)
NoneAction ==
    [kind |-> "NoneType", name |-> "", idx |-> 0,
     dx |-> 0, dy |-> 0, edge1 |-> NoEdge, edge2 |-> NoEdge]

\* every action of the catalogue, legal in the current state or not
Catalogue(n) ==
    {MovementAction(player_movement[i][1], i - 1,
                    player_movement[i][2][2], player_movement[i][2][1]) :
        i \in DOMAIN player_movement}
    \cup {BlockedAction(blocked_movement[i][2][1], blocked_movement[i][2][2]) :
        i \in DOMAIN blocked_movement}
    \cup {HorizontalWall(n, a[1], a[2]) : a \in Cells(n - 1)}
    \cup {VerticalWall(n, a[1], a[2]) : a \in Cells(n - 1)}

\* what an agent may hand back: select_move is arbitrary third-party code
AgentValues(n, legal_actions) ==
    {legal_actions[i] : i \in DOMAIN legal_actions} \cup Catalogue(n)
        \cup {NoneAction}
        \cup UNION {Reordered(legal_actions[i]) :
                        i \in {k \in DOMAIN legal_actions :
                                  legal_actions[k].kind = "WallAction"}}

\* an object of a subclass of the class of `a` whose __eq__ returns True
Forged(a) ==
    [kind |-> a.kind, name |-> a.name, idx |-> a.idx, dx |-> a.dx, dy |-> a.dy,
     edge1 |-> a.edge1, edge2 |-> a.edge2, eq |-> "True"]

\* answers of an agent that defeat the comparison: a WallAction of such a
\* subclass for each anchor of the first row, and an object that is no
\* Action
ForgedValues(n) ==
    {Forged(HorizontalWall(n, 0, c)) : c \in 0 .. n - 2}
        \cup {Forged(NoneAction)}

\* the two positional bot arguments of game_loop as the callers pass them:
\* main.py and the even rounds of n_matches seat player_id 0 first, the odd
\* rounds of n_matches seat player_id 1 first
BotIds == {[p \in Players |-> p], [p \in Players |-> 1 - p]}

\* variant: the live objects are passed, without deepcopy
SubmitArgsShared == [state |-> "live", legal_actions |-> "live"]

\* the references _timed_select_move hands to the worker: deepcopy makes a
\* fresh object for the state and for the legal list
SubmitArgs == [state |-> "copy", legal_actions |-> "copy"]

\* variant: an action outside the offered list is applied like a legal one
play_single_turn_unvalidated(s, to_move, actions, ok, chosen_action, ids) ==
    IF ~ok
    THEN [state |-> s, stop |-> TRUE, winner |-> Some(ids[1 - to_move]),
          raised |-> FALSE]
    ELSE IF use_action_raises(chosen_action)
    THEN [state |-> s, stop |-> FALSE, winner |-> NoneVal, raised |-> TRUE]
    ELSE LET s2 == use_action(s, to_move, chosen_action)
         IN  IF check_win(s2, to_move)
             THEN [state |-> s2, stop |-> TRUE, winner |-> Some(ids[to_move]),
                   raised |-> FALSE]
             ELSE [state |-> s2, stop |-> FALSE, winner |-> NoneVal,
                   raised |-> FALSE]

\* variant: the action is applied first and checked against the list after
play_single_turn_apply_first(s, to_move, actions, ok, chosen_action, ids) ==
    IF ~ok
    THEN [state |-> s, stop |-> TRUE, winner |-> Some(ids[1 - to_move]),
          raised |-> FALSE]
    ELSE IF use_action_raises(chosen_action)
    THEN [state |-> s, stop |-> FALSE, winner |-> NoneVal, raised |-> TRUE]
    ELSE LET s2 == use_action(s, to_move, chosen_action)
         IN  IF ~Contains(actions, chosen_action)
             THEN [state |-> s2, stop |-> TRUE,
                   winner |-> Some(ids[1 - to_move]), raised |-> FALSE]
             ELSE IF check_win(s2, to_move)
             THEN [state |-> s2, stop |-> TRUE, winner |-> Some(ids[to_move]),
                   raised |-> FALSE]
             ELSE [state |-> s2, stop |-> FALSE, winner |-> NoneVal,
                   raised |-> FALSE]

\* QuoridorEnv._play_single_turn after _timed_select_move returned
\* (ok, chosen_action): the new GraphState, whether running was cleared,
\* the returned winner and whether use_action raised
\* variant: the win check after the action is left out
play_single_turn_win_unchecked(s, to_move, actions, ok, chosen_action, ids) ==
    IF ~ok \/ ~Contains(actions, chosen_action)
    THEN [state |-> s, stop |-> TRUE, winner |-> Some(ids[1 - to_move]),
          raised |-> FALSE]
    ELSE IF use_action_raises(chosen_action)
    THEN [state |-> s, stop |-> FALSE, winner |-> NoneVal, raised |-> TRUE]
    ELSE [state |-> use_action(s, to_move, chosen_action), stop |-> FALSE,
          winner |-> NoneVal, raised |-> FALSE]

play_single_turn(s, to_move, actions, ok, chosen_action, ids) ==
    IF ~ok
    THEN [state |-> s, stop |-> TRUE, winner |-> Some(ids[1 - to_move]),
          raised |-> FALSE]
    ELSE IF ~Contains(actions, chosen_action)
    THEN [state |-> s, stop |-> TRUE, winner |-> Some(ids[1 - to_move]),
          raised |-> FALSE]
    ELSE IF use_action_raises(chosen_action)
    THEN [state |-> s, stop |-> FALSE, winner |-> NoneVal, raised |-> TRUE]
    ELSE LET s2 == use_action(s, to_move, chosen_action)
         IN  IF check_win(s2, to_move)
             THEN [state |-> s2, stop |-> TRUE, winner |-> Some(ids[to_move]),
                   raised |-> FALSE]
             ELSE [state |-> s2, stop |-> FALSE, winner |-> NoneVal,
                   raised |-> FALSE]

\* variant: the cap is tested with > instead of >=
move_cap_reached_strict(t) == t > Config.MAX_MOVES

\* the cap test of game_loop after self.turn += 1
move_cap_reached(t) == t >= Config.MAX_MOVES

\* what a worker can do to a GraphState object it holds a reference to:
\* cut every edge, swap the pawns, refill the walls, add a bogus segment
Scribble(s) ==
    [config       |-> s.config,
     graph        |-> [c \in DOMAIN s.graph |-> {}],
     player_pos   |-> [p \in Players |-> s.player_pos[1 - p]],
     goal_y       |-> s.goal_y,
     walls_left   |-> [p \in Players |-> s.config.W + 1],
     placed_walls |-> s.placed_walls \cup {<<<<0, 0>>, <<0, 0>>>>}]

\* ------------------------------------------------------------------ state

VARIABLES
    state,      \* QuoridorEnv.state, the authoritative GraphState
    turn,       \* QuoridorEnv.turn
    to_move,    \* QuoridorEnv.to_move
    running,    \* QuoridorEnv.running
    pc,         \* where game_loop stands: "idle", "turn", "wait", "exit",
                \* "done" (returned) or "raised" (left by an exception)
    ids,        \* player_id of the bots passed as player_1 and player_2
    actions,    \* the local list `actions` of _play_single_turn (empty
                \* outside a turn)
    worker,     \* the executor's worker running select_move
    wstate,     \* the deepcopy of the state the worker was given, if any
    wactions,   \* the deepcopy of the legal list the worker was given
    recv,       \* what future.result gave on the last turn
    result,     \* the value game_loop returns
    ncalls,     \* select_move calls submitted in this game
    tour        \* the locals of QuoridorTournament.n_matches

vars == <<state, turn, to_move, running, pc, ids, actions, worker, wstate,
          wactions, recv, result, ncalls, tour>>

\* no tournament is running
NoTour == [at |-> "none", i |-> 0, wins_bot1 |-> 0, bot1_id |-> 0]

IdleWorker == [status |-> "idle", args |-> SubmitArgs, scribbled |-> FALSE]
NoRecv == [kind |-> "none", in_list |-> FALSE]

\* QuoridorEnv.__init__
Init ==
    /\ state = InitState(Config)
    /\ turn = 1
    /\ to_move = Config.P1
    /\ running = TRUE
    /\ pc = "idle"
    /\ ids \in BotIds
    /\ actions = <<>>
    /\ worker = IdleWorker
    /\ wstate = NoneVal
    /\ wactions = NoneVal
    /\ recv = NoRecv
    /\ result = NoneVal
    /\ ncalls = 0
    /\ tour = NoTour

\* variant: game_loop starts without GraphState.reset
GameLoopBoardKept ==
    /\ pc \in {"idle", "done"}
    /\ state' = state
    /\ turn' = 1
    /\ running' = TRUE
    /\ to_move' = Config.P1
    /\ ids' \in BotIds
    /\ pc' = "turn"
    /\ actions' = <<>>
    /\ worker' = IdleWorker
    /\ wstate' = NoneVal
    /\ wactions' = NoneVal
    /\ recv' = NoRecv
    /\ result' = NoneVal
    /\ ncalls' = 0
    /\ UNCHANGED tour

\* game_loop is called (first game, or another game on the same env):
\* reset(), the executor is created, player 1 is to move
GameLoop ==
    /\ pc \in {"idle", "done"}
    /\ state' = InitState(state.config)
    /\ turn' = 1
    /\ running' = TRUE
    /\ to_move' = Config.P1
    /\ ids' \in BotIds
    /\ pc' = "turn"
    /\ actions' = <<>>
    /\ worker' = IdleWorker
    /\ wstate' = NoneVal
    /\ wactions' = NoneVal
    /\ recv' = NoRecv
    /\ result' = NoneVal
    /\ ncalls' = 0
    /\ UNCHANGED tour

\* _play_single_turn up to executor.submit: the legal list is computed and
\* the worker starts on the deepcopies
Submit ==
    /\ pc = "turn"
    /\ actions' = get_all_legal_actions(state, to_move)
    /\ worker' = [status |-> "running", args |-> SubmitArgs, scribbled |-> FALSE]
    /\ wstate' = Some(state)
    /\ wactions' = Some(actions')
    /\ ncalls' = ncalls + 1
    /\ pc' = "wait"
    /\ state' = after_get_all_legal_actions(state, to_move)
    /\ UNCHANGED <<turn, to_move, running, ids, recv, result, tour>>

\* the running worker mutates the state object it was handed
WorkerScribbleState ==
    /\ worker.status = "running"
    /\ ~worker.scribbled
    /\ worker' = [worker EXCEPT !.scribbled = TRUE]
    /\ IF worker.args.state = "copy"
       THEN /\ wstate' = Some(Scribble(wstate[1]))
            /\ UNCHANGED state
       ELSE /\ state' = Scribble(state)
            /\ UNCHANGED wstate
    /\ UNCHANGED <<turn, to_move, running, pc, ids, actions, wactions, recv,
                   result, ncalls, tour>>

\* the running worker mutates the list object it was handed
WorkerScribbleList ==
    /\ worker.status = "running"
    /\ ~worker.scribbled
    /\ worker' = [worker EXCEPT !.scribbled = TRUE]
    /\ IF worker.args.legal_actions = "copy"
       THEN /\ wactions' = Some(Append(wactions[1], NoneAction))
            /\ UNCHANGED actions
       ELSE /\ actions' = Append(actions, NoneAction)
            /\ UNCHANGED wactions
    /\ UNCHANGED <<state, turn, to_move, running, pc, ids, wstate, recv,
                   result, ncalls, tour>>

\* the rest of _play_single_turn and of the loop body of game_loop, once
\* future.result has given (ok, chosen_action)
FinishTurn(ok, chosen_action) ==
    LET r == play_single_turn(state, to_move, actions, ok, chosen_action, ids)
    IN  /\ state' = r.state
        /\ running' = IF r.stop THEN FALSE ELSE running
        /\ actions' = <<>>
        /\ UNCHANGED <<ids, ncalls, tour>>
        /\ IF r.raised
           THEN /\ pc' = "raised"
                /\ UNCHANGED <<turn, to_move, result>>
           ELSE IF r.winner # NoneVal
           THEN /\ pc' = "exit"
                /\ result' = r.winner
                /\ UNCHANGED <<turn, to_move>>
           ELSE IF to_move = Config.P1
           THEN /\ to_move' = Config.P2
                /\ pc' = "turn"
                /\ UNCHANGED <<turn, result>>
           ELSE /\ turn' = turn + 1
                /\ IF move_cap_reached(turn + 1)
                   THEN /\ pc' = "exit"
                        /\ result' = Some(DRAW)
                        /\ UNCHANGED to_move
                   ELSE IF running'
                   THEN /\ pc' = "turn"
                        /\ to_move' = Config.P1
                        /\ UNCHANGED result
                   ELSE /\ pc' = "exit"
                        /\ UNCHANGED <<to_move, result>>

\* select_move returns v before the deadline
ResultValue(v) ==
    /\ pc = "wait"
    /\ worker.status = "running"
    /\ worker' = IdleWorker
    /\ wstate' = NoneVal
    /\ wactions' = NoneVal
    /\ recv' = [kind |-> "value", in_list |-> Contains(actions, v)]
    /\ FinishTurn(TRUE, v)

\* select_move raises before the deadline
ResultRaise ==
    /\ pc = "wait"
    /\ worker.status = "running"
    /\ worker' = IdleWorker
    /\ wstate' = NoneVal
    /\ wactions' = NoneVal
    /\ recv' = [kind |-> "raise", in_list |-> FALSE]
    /\ FinishTurn(FALSE, NoneAction)

\* the deadline passes with select_move still running: the worker goes on
ResultTimeout ==
    /\ pc = "wait"
    /\ worker.status = "running"
    /\ recv' = [kind |-> "timeout", in_list |-> FALSE]
    /\ UNCHANGED <<worker, wstate, wactions>>
    /\ FinishTurn(FALSE, NoneAction)

\* variant: the value of the abandoned call is applied when it arrives
WorkerLateFinishApplied ==
    /\ pc # "wait"
    /\ worker.status = "running"
    /\ worker' = IdleWorker
    /\ wstate' = NoneVal
    /\ wactions' = NoneVal
    /\ \E v \in Catalogue(state.config.N) :
            state' = use_action(state, to_move, v)
    /\ UNCHANGED <<turn, to_move, running, pc, ids, actions, recv,
                   result, ncalls, tour>>

\* an abandoned select_move call ends at last; nobody reads its future
WorkerLateFinish ==
    /\ pc # "wait"
    /\ worker.status = "running"
    /\ worker' = IdleWorker
    /\ wstate' = NoneVal
    /\ wactions' = NoneVal
    /\ UNCHANGED <<state, turn, to_move, running, pc, ids, actions, recv,
                   result, ncalls, tour>>

\* leaving the with block: ThreadPoolExecutor.__exit__ is shutdown(wait=True),
\* which joins the worker threads before game_loop's return takes effect
ExitLoop ==
    /\ pc = "exit"
    /\ worker.status # "running"
    /\ pc' = "done"
    /\ UNCHANGED <<state, turn, to_move, running, ids, actions, worker, wstate,
                   wactions, recv, result, ncalls, tour>>

\* the steps of the engine and of the agent's worker
EngineStep ==
    \/ Submit
    \/ \E v \in AgentValues(state.config.N, actions) : ResultValue(v)
    \/ ResultRaise
    \/ ResultTimeout
    \/ ExitLoop

WorkerStep ==
    \/ WorkerScribbleState
    \/ WorkerScribbleList
    \/ WorkerLateFinish

Next ==
    \/ GameLoop
    \/ Submit
    \/ \E v \in AgentValues(state.config.N, actions) : ResultValue(v)
    \/ ResultRaise
    \/ ResultTimeout
    \/ WorkerScribbleState
    \/ WorkerScribbleList
    \/ WorkerLateFinish
    \/ ExitLoop

Spec == Init /\ [][Next]_vars

\* game_loop with agents that may also answer an object of ForgedValues
ForgedNext ==
    \/ Next
    \/ \E v \in ForgedValues(state.config.N) : ResultValue(v)

ForgedSpec == Init /\ [][ForgedNext]_vars

\* ----------------------------------------------------- play by the rules
\* The same turn with agents that always answer in time with a member of
\* the offered list, and with the turn counter left alone: every board
\* game_loop reaches before the move cap, whatever the cap.

\* get_all_legal_actions, as the first step of _play_single_turn
RulesOffer ==
    /\ pc = "turn"
    /\ actions' = get_all_legal_actions(state, to_move)
    /\ pc' = "wait"
    /\ state' = after_get_all_legal_actions(state, to_move)
    /\ UNCHANGED <<turn, to_move, running, ids, worker, wstate,
                   wactions, recv, result, ncalls, tour>>

\* the agent answers actions[i]; it is validated, applied and checked for a win
RulesAccept(i) ==
    LET r == play_single_turn(state, to_move, actions, TRUE, actions[i], ids)
    IN  /\ pc = "wait"
        /\ state' = r.state
        /\ running' = IF r.stop THEN FALSE ELSE running
        /\ recv' = [kind |-> "value", in_list |-> Contains(actions, actions[i])]
        /\ IF r.winner # NoneVal
           THEN /\ pc' = "done"
                /\ result' = r.winner
                /\ UNCHANGED to_move
           ELSE /\ pc' = "turn"
                /\ to_move' = 1 - to_move
                /\ UNCHANGED result
        /\ actions' = <<>>
        /\ UNCHANGED <<turn, ids, worker, wstate, wactions, ncalls, tour>>

RulesInit ==
    /\ state = InitState(Config)
    /\ turn = 1
    /\ to_move = Config.P1
    /\ running = TRUE
    /\ pc = "turn"
    /\ ids = [p \in Players |-> p]
    /\ actions = <<>>
    /\ worker = IdleWorker
    /\ wstate = NoneVal
    /\ wactions = NoneVal
    /\ recv = NoRecv
    /\ result = NoneVal
    /\ ncalls = 0
    /\ tour = NoTour

RulesNext ==
    \/ RulesOffer
    \/ \E i \in DOMAIN actions : RulesAccept(i)

RulesSpec == RulesInit /\ [][RulesNext]_vars

\* ------------------------------------------------- boards of other sizes
\* The same play by the rules on every board from 2 x 2 to BoardsMaxN x
\* BoardsMaxN with every wall budget up to BoardsMaxW.

BoardsMaxN == 3
BoardsMaxW == 2

\* QuoridorEnv.__init__ under a Config with other N and W
BoardsInit ==
    /\ \E n \in 2 .. BoardsMaxN, w \in 0 .. BoardsMaxW :
            state = InitState([Config EXCEPT !.N = n, !.W = w])
    /\ turn = 1
    /\ to_move = Config.P1
    /\ running = TRUE
    /\ pc = "turn"
    /\ ids = [p \in Players |-> p]
    /\ actions = <<>>
    /\ worker = IdleWorker
    /\ wstate = NoneVal
    /\ wactions = NoneVal
    /\ recv = NoRecv
    /\ result = NoneVal
    /\ ncalls = 0
    /\ tour = NoTour

BoardsSpec == BoardsInit /\ [][RulesNext]_vars

\* ------------------------------------------- the operations on their own
\* remove_connection and the WallAction constructor called directly, on
\* boards of every size up to MaxBoard: a few calls in any order, each on
\* any pair of cells on or just off the board, or on any candidate wall
\* with its edges and their cells given in any order.

MaxBoard == 3
MaxCalls == 2

\* the cells of an n x n board and the ring of positions around it
CellsAround(n) == (0 - 1 .. n) \X (0 - 1 .. n)

\* GraphState.remove_connection(self.graph, pos1, pos2)
CallRemoveConnection(pos1, pos2) ==
    /\ ncalls < MaxCalls
    /\ state' = [state EXCEPT !.graph = remove_connection(@, pos1, pos2)]
    /\ ncalls' = ncalls + 1
    /\ UNCHANGED <<turn, to_move, running, pc, ids, actions, worker, wstate,
                   wactions, recv, result, tour>>

\* WallAction(name="", idx=idx, edge1=edge1, edge2=edge2); the object is
\* kept in the list `actions`
CallWallAction(idx, edge1, edge2) ==
    /\ ncalls < MaxCalls
    /\ actions' = Append(actions, WallAction(idx, edge1, edge2))
    /\ ncalls' = ncalls + 1
    /\ UNCHANGED <<state, turn, to_move, running, pc, ids, worker, wstate,
                   wactions, recv, result, tour>>

CallsInit ==
    /\ \E n \in 2 .. MaxBoard : state = InitState([Config EXCEPT !.N = n])
    /\ turn = 1
    /\ to_move = Config.P1
    /\ running = TRUE
    /\ pc = "idle"
    /\ ids = [p \in Players |-> p]
    /\ actions = <<>>
    /\ worker = IdleWorker
    /\ wstate = NoneVal
    /\ wactions = NoneVal
    /\ recv = NoRecv
    /\ result = NoneVal
    /\ ncalls = 0
    /\ tour = NoTour

CallsNext ==
    \/ \E pos1, pos2 \in CellsAround(state.config.N) :
            CallRemoveConnection(pos1, pos2)
    \/ \E a \in Cells(state.config.N - 1), horizontal, pairs, first, second \in BOOLEAN :
            LET w == IF horizontal
                     THEN HorizontalWall(state.config.N, a[1], a[2])
                     ELSE VerticalWall(state.config.N, a[1], a[2])
            IN  CallWallAction(
                    w.idx,
                    Arrange(IF pairs THEN w.edge2 ELSE w.edge1, first),
                    Arrange(IF pairs THEN w.edge1 ELSE w.edge2, second))

CallsSpec == CallsInit /\ [][CallsNext]_vars

\* ------------------------------------------ games between fixed policies
\* game_loop between two agents that both answer the offered action whose
\* name sorts first as a Python string, on boards of every size up to
\* LexMaxBoard, without walls and under the move cap of Config.

LexMaxBoard == 7
MAX_MOVES_DEFAULT == 250

\* Config() with the board size chosen, no walls and the default move cap
LexConfig(n) ==
    [Config EXCEPT !.N = n, !.W = 0, !.MAX_MOVES = MAX_MOVES_DEFAULT]

\* the names of ActionSpace.player_movement and .blocked_movement in the
\* order of Python's str comparison
SortedMoveNames ==
    <<"down", "down_left", "down_right", "jump_down", "jump_left",
      "jump_right", "jump_up", "left", "right", "up", "up_left", "up_right">>

NameRank(name) == CHOOSE i \in DOMAIN SortedMoveNames : SortedMoveNames[i] = name

\* select_move of the policy: min(legal_actions, key=lambda a: a.name)
LexFirst(legal_actions) ==
    legal_actions[CHOOSE i \in DOMAIN legal_actions :
        \A j \in DOMAIN legal_actions :
            \/ NameRank(legal_actions[i].name) < NameRank(legal_actions[j].name)
            \/ /\ legal_actions[i].name = legal_actions[j].name
               /\ i <= j]

\* _play_single_turn up to the call of the agent
LexOffer ==
    /\ pc = "turn"
    /\ actions' = get_all_legal_actions(state, to_move)
    /\ ncalls' = ncalls + 1
    /\ pc' = "wait"
    /\ state' = after_get_all_legal_actions(state, to_move)
    /\ UNCHANGED <<turn, to_move, running, ids, worker, wstate,
                   wactions, recv, result, tour>>

\* the agent answers in time; the rest of _play_single_turn and of the loop
\* body of game_loop
LexAnswer ==
    LET v == LexFirst(actions)
        r == play_single_turn(state, to_move, actions, TRUE, v, ids)
    IN  /\ pc = "wait"
        /\ state' = r.state
        /\ running' = IF r.stop THEN FALSE ELSE running
        /\ recv' = [kind |-> "value", in_list |-> Contains(actions, v)]
        /\ actions' = <<>>
        /\ UNCHANGED <<ids, worker, wstate, wactions, ncalls, tour>>
        /\ IF r.winner # NoneVal
           THEN /\ pc' = "done"
                /\ result' = r.winner
                /\ UNCHANGED <<turn, to_move>>
           ELSE IF to_move = Config.P1
           THEN /\ to_move' = Config.P2
                /\ pc' = "turn"
                /\ UNCHANGED <<turn, result>>
           ELSE /\ turn' = turn + 1
                /\ IF turn + 1 >= state.config.MAX_MOVES
                   THEN /\ pc' = "done"
                        /\ result' = Some(DRAW)
                        /\ UNCHANGED to_move
                   ELSE /\ pc' = "turn"
                        /\ to_move' = Config.P1
                        /\ UNCHANGED result

\* game_loop has been called on a fresh environment
LexInit ==
    /\ \E n \in 2 .. LexMaxBoard : state = InitState(LexConfig(n))
    /\ turn = 1
    /\ to_move = Config.P1
    /\ running = TRUE
    /\ pc = "turn"
    /\ ids \in BotIds
    /\ actions = <<>>
    /\ worker = IdleWorker
    /\ wstate = NoneVal
    /\ wactions = NoneVal
    /\ recv = NoRecv
    /\ result = NoneVal
    /\ ncalls = 0
    /\ tour = NoTour

LexNext ==
    \/ LexOffer
    \/ LexAnswer

\* the loop of game_loop runs on its own thread and each agent answers
LexSpec == LexInit /\ [][LexNext]_vars /\ WF_vars(LexNext)

\* ------------------------------------------------------------ tournament
\* QuoridorTournament.n_matches: `rounds` games on one environment
\* between bot1 = bot_1_cls(0) and bot2 = bot_2_cls(1), each game played by
\* game_loop with its agents' workers.  wins_bot1 is counted in halves, so
\* that a draw adds 1 and a win adds 2.

TourPairs == 1

\* TournamentConfig.rounds, which QuoridorTournament.__init__ wants even
rounds == 2 * TourPairs

\* the player_id of the bot on each seat: (p1, p2) = (bot1, bot2) in the
\* rounds of even index, (bot2, bot1) in the others
SeatIds(i) ==
    IF i % 2 = 0 THEN [p \in Players |-> p] ELSE [p \in Players |-> 1 - p]

\* n_matches is called: env = QuoridorEnv(), wins_bot1 = 0, the two bots
TourInit ==
    /\ state = InitState(Config)
    /\ turn = 1
    /\ to_move = Config.P1
    /\ running = TRUE
    /\ pc = "idle"
    /\ ids = SeatIds(0)
    /\ actions = <<>>
    /\ worker = IdleWorker
    /\ wstate = NoneVal
    /\ wactions = NoneVal
    /\ recv = NoRecv
    /\ result = NoneVal
    /\ ncalls = 0
    /\ tour = [at |-> "loop", i |-> 0, wins_bot1 |-> 0, bot1_id |-> 0]

\* the loop body up to the call of game_loop: the resets, the seats and
\* bot1_id, then game_loop's own reset
TourPlay ==
    /\ tour.at = "loop"
    /\ tour.i < rounds
    /\ pc \in {"idle", "done"}
    /\ tour' = [tour EXCEPT !.at = "game",
                            !.bot1_id = IF tour.i % 2 = 0 THEN 0 ELSE 1]
    /\ ids' = SeatIds(tour.i)
    /\ state' = InitState(state.config)
    /\ turn' = 1
    /\ running' = TRUE
    /\ to_move' = Config.P1
    /\ pc' = "turn"
    /\ actions' = <<>>
    /\ worker' = IdleWorker
    /\ wstate' = NoneVal
    /\ wactions' = NoneVal
    /\ recv' = NoRecv
    /\ result' = NoneVal
    /\ ncalls' = 0

\* what the two tests after game_loop add to wins_bot1, in halves
TourCredit(winner_player_id, bot1_id) ==
    (IF winner_player_id = bot1_id THEN 2 ELSE 0)
        + (IF winner_player_id = DRAW THEN 1 ELSE 0)

\* game_loop has returned winner_player_id: the tally, and the next round
TourScore ==
    /\ tour.at = "game"
    /\ pc = "done"
    /\ tour' = [tour EXCEPT !.at = "loop",
                            !.i = @ + 1,
                            !.wins_bot1 = @ + TourCredit(result[1], tour.bot1_id)]
    /\ UNCHANGED <<state, turn, to_move, running, pc, ids, actions, worker,
                   wstate, wactions, recv, result, ncalls>>

\* return wins_bot1 / self.rounds: the quotient is wins_bot1 halves over
\* 2 * rounds
TourReturn ==
    /\ tour.at = "loop"
    /\ tour.i = rounds
    /\ tour' = [tour EXCEPT !.at = "returned"]
    /\ UNCHANGED <<state, turn, to_move, running, pc, ids, actions, worker,
                   wstate, wactions, recv, result, ncalls>>

TourNext ==
    \/ TourPlay
    \/ Submit
    \/ \E v \in AgentValues(state.config.N, actions) : ResultValue(v)
    \/ ResultRaise
    \/ ResultTimeout
    \/ WorkerScribbleState
    \/ WorkerScribbleList
    \/ WorkerLateFinish
    \/ ExitLoop
    \/ TourScore
    \/ TourReturn

TourSpec == TourInit /\ [][TourNext]_vars

\* ------------------------------------------------ games under other caps
\* game_loop on the boards above under every move cap from 1 to CapsMax,
\* with agents that answer a member of the list, answer something else, or
\* run out of time.  The players have no walls here: the cap counts rounds
\* whatever the actions are.

CapsMax == 3

\* variant: the turn counter is left as it is
next_turn_stuck(t) == t

\* self.turn += 1
next_turn(t) == t + 1

\* future.result gives (ok, chosen_action); the rest of _play_single_turn
\* and of the loop body of game_loop, with the cap of the Config in use
\* variant: after the second player's turn the cap is tested before the
\* turn's result is looked at
CapsAnswer_cap_first(ok, chosen_action) ==
    LET r == play_single_turn(state, to_move, actions, ok, chosen_action, ids)
        capped == to_move = Config.P2 /\ turn + 1 >= state.config.MAX_MOVES
    IN  /\ pc = "wait"
        /\ state' = r.state
        /\ running' = IF r.stop THEN FALSE ELSE running
        /\ recv' = IF ok THEN [kind |-> "value",
                               in_list |-> Contains(actions, chosen_action)]
                   ELSE [kind |-> "timeout", in_list |-> FALSE]
        /\ actions' = <<>>
        /\ UNCHANGED <<ids, worker, wstate, wactions, ncalls, tour>>
        /\ IF capped
           THEN /\ turn' = turn + 1
                /\ pc' = "done"
                /\ result' = Some(DRAW)
                /\ UNCHANGED to_move
           ELSE IF r.winner # NoneVal
           THEN pc' = "done" /\ result' = r.winner /\ UNCHANGED <<turn, to_move>>
           ELSE IF to_move = Config.P1
           THEN to_move' = Config.P2 /\ pc' = "turn" /\ UNCHANGED <<turn, result>>
           ELSE /\ turn' = turn + 1
                /\ pc' = "turn"
                /\ to_move' = Config.P1
                /\ UNCHANGED result

CapsAnswer(ok, chosen_action) ==
    LET r == play_single_turn(state, to_move, actions, ok, chosen_action, ids)
    IN  /\ pc = "wait"
        /\ state' = r.state
        /\ running' = IF r.stop THEN FALSE ELSE running
        /\ recv' = IF ok
                   THEN [kind |-> "value",
                         in_list |-> Contains(actions, chosen_action)]
                   ELSE [kind |-> "timeout", in_list |-> FALSE]
        /\ actions' = <<>>
        /\ UNCHANGED <<ids, worker, wstate, wactions, ncalls, tour>>
        /\ IF r.winner # NoneVal
           THEN /\ pc' = "done"
                /\ result' = r.winner
                /\ UNCHANGED <<turn, to_move>>
           ELSE IF to_move = Config.P1
           THEN /\ to_move' = Config.P2
                /\ pc' = "turn"
                /\ UNCHANGED <<turn, result>>
           ELSE /\ turn' = next_turn(turn)
                /\ IF turn' >= state.config.MAX_MOVES
                   THEN /\ pc' = "done"
                        /\ result' = Some(DRAW)
                        /\ UNCHANGED to_move
                   ELSE /\ pc' = "turn"
                        /\ to_move' = Config.P1
                        /\ UNCHANGED result

\* game_loop has been called on a fresh environment
CapsInit ==
    /\ \E n \in 2 .. BoardsMaxN, m \in 1 .. CapsMax :
            state = InitState([Config EXCEPT !.N = n, !.W = 0, !.MAX_MOVES = m])
    /\ turn = 1
    /\ to_move = Config.P1
    /\ running = TRUE
    /\ pc = "turn"
    /\ ids \in BotIds
    /\ actions = <<>>
    /\ worker = IdleWorker
    /\ wstate = NoneVal
    /\ wactions = NoneVal
    /\ recv = NoRecv
    /\ result = NoneVal
    /\ ncalls = 0
    /\ tour = NoTour

CapsNext ==
    \/ LexOffer
    \/ \E i \in DOMAIN actions : CapsAnswer(TRUE, actions[i])
    \/ CapsAnswer(TRUE, NoneAction)
    \/ CapsAnswer(FALSE, NoneAction)

\* every select_move call returns or is timed out, and the loop goes on
CapsSpec == CapsInit /\ [][CapsNext]_vars /\ WF_vars(CapsNext)

\* ------------------------------------------------------------- properties

\* the cells joined to a cell of S by a path of the adjacency g
\* (S: the cells found so far, F: those among them not yet expanded)
RECURSIVE Closure(_, _, _)
Closure(g, S, F) ==
    LET T == (UNION {g[c] : c \in F \cap DOMAIN g}) \ S
    IN  IF T = {} THEN S ELSE Closure(g, S \cup T, T)

\* a path leads from pos to some cell of the given row
ReachesRow(g, pos, row) == \E c \in Closure(g, {pos}, {pos}) : c[1] = row

\* the adjacency g without the edges e1 and e2, in both directions
Without(g, e1, e2) ==
    LET cut == {e1, e2, <<e1[2], e1[1]>>, <<e2[2], e2[1]>>}
    IN  [c \in DOMAIN g |-> {d \in g[c] : <<c, d>> \notin cut}]

\* the 2 (N-1)^2 wall candidates of the board of s
Candidates(s) ==
    {HorizontalWall(s.config.N, a[1], a[2]) : a \in Cells(s.config.N - 1)}
    \cup {VerticalWall(s.config.N, a[1], a[2]) : a \in Cells(s.config.N - 1)}

\* (a) both edges of the candidate exist
EdgesExist(s, w) == w.edge1[2] \in s.graph[w.edge1[1]]
                    /\ w.edge2[2] \in s.graph[w.edge2[1]]
\* (b) the crossing test: the transposed pairs are both in the ledger
Crosses(s, w) == {<<w.edge1[1], w.edge2[1]>>, <<w.edge1[2], w.edge2[2]>>}
                    \subseteq s.placed_walls
\* (c) with the candidate's edges removed both players reach their goal rows
KeepsPaths(s, w) ==
    \A p \in Players :
        ReachesRow(Without(s.graph, w.edge1, w.edge2),
                   s.player_pos[p], s.goal_y[p])

\* the last select_move call ended in a forfeit
Forfeited ==
    \/ recv.kind \in {"timeout", "raise"}
    \/ (recv.kind = "value" /\ ~recv.in_list)

ListsExactly(list, set) ==
    /\ {list[i] : i \in DOMAIN list} = set
    /\ Len(list) = Cardinality(set)

\* C2: get_all_wall_moves returns, without repetition, exactly the wall
\* candidates that pass (a) edges exist, (b) no crossing and (c) both
\* players keep a path; so no returned wall cuts a player off and no
\* passing candidate is left out.
C2_WallMovesExact ==
    pc = "turn" =>
        ListsExactly(get_all_wall_moves(state),
                     {w \in Candidates(state) :
                         EdgesExist(state, w) /\ ~Crosses(state, w)
                             /\ KeepsPaths(state, w)})

\* in one state candidates fail for each of the three reasons and some pass
C2_Witness ==
    /\ get_all_wall_moves(state) # <<>>
    /\ \E w \in Candidates(state) : ~EdgesExist(state, w)
    /\ \E w \in Candidates(state) : EdgesExist(state, w) /\ Crosses(state, w)
    /\ \E w \in Candidates(state) :
          EdgesExist(state, w) /\ ~Crosses(state, w) /\ ~KeepsPaths(state, w)

\* C3: after a timeout, an exception or a choice outside the offered list
\* the game is over on that turn with the other bot's player_id as the
\* result, so that no further select_move call is submitted in that game.
C3_ForfeitEndsGame ==
    Forfeited =>
        /\ pc \in {"exit", "done"}
        /\ result = Some(ids[1 - to_move])

\* game_loop has returned after a choice outside the offered list
C3_Witness == pc = "done" /\ recv.kind = "value" /\ ~recv.in_list

\* C4: the step that rules a forfeit, and every later step of that game,
\* leaves graph, ledger, positions and wall counts as the last accepted
\* action left them; a forfeit on the first call of a game leaves the
\* initial board and turn 1.
C4_ForfeitAppliesNothing ==
    /\ [][Forfeited' => state' = state]_vars
    /\ [](Forfeited /\ ncalls = 1 => state = InitState(Config) /\ turn = 1)

\* a forfeit by illegal choice after a wall was placed earlier in the game
C4_Witness ==
    /\ pc = "done"
    /\ recv.kind = "value" /\ ~recv.in_list
    /\ state.placed_walls # {}

\* C5: once a timeout has been ruled, game_loop goes on to return without
\* waiting for the abandoned select_move call: while it has not returned,
\* the engine always has a step it can take, whatever the worker does.
C5_ReturnsWithoutWaiting ==
    (recv.kind = "timeout" /\ pc # "done") => ENABLED EngineStep

\* C6: the worker starts on copies equal to the state and the legal list of
\* that moment, and no step of the worker, before or after it is abandoned,
\* changes the engine's state, legal list, turn, mover, flag or result.
C6_WorkerIsolated ==
    /\ []((pc = "wait" /\ ~worker.scribbled) =>
              wstate = Some(state) /\ wactions = Some(actions))
    /\ [][(pc' = pc /\ worker' # worker) =>
              UNCHANGED <<state, actions, turn, to_move, running, result>>]_vars

\* an abandoned worker has overwritten the state object it was given
C6_Witness ==
    /\ pc = "exit"
    /\ recv.kind = "timeout"
    /\ worker.status = "running"
    /\ worker.scribbled
    /\ wstate # Some(state)

\* game_loop is returning the mover's bot as the winner
WinDeclared == pc \in {"exit", "done"} /\ result = Some(ids[to_move])
\* the pawn of player p stands on p's goal row
AtGoal(p) == state.player_pos[p][1] = state.goal_y[p]

Specials == SelectSeq(actions, LAMBDA a : a.kind = "BlockedMovementAction")
Displacement(a) == <<a.dy, a.dx>>
IsJump(a) == Displacement(a) \in {<<0 - 2, 0>>, <<2, 0>>, <<0, 0 - 2>>, <<0, 2>>}
IsDiagonal(a) == a.dy \in {0 - 1, 1} /\ a.dx \in {0 - 1, 1}
\* mover's cell C, opponent's cell O, delta = O - C
MoverCell == state.player_pos[to_move]
OpponentCell == state.player_pos[1 - to_move]
Delta == <<OpponentCell[1] - MoverCell[1], OpponentCell[2] - MoverCell[2]>>
Plus(c, d) == <<c[1] + d[1], c[2] + d[2]>>
\* the opponent is on a neighbouring cell and the edge to it exists
FacingOpponent == OpponentCell \in state.graph[MoverCell]
\* the edge from the opponent's cell straight on exists
JumpEdge == Plus(OpponentCell, Delta) \in state.graph[OpponentCell]
\* the two side steps perpendicular to delta
Sides == IF Delta[1] # 0 THEN {<<0, 0 - 1>>, <<0, 1>>}
                         ELSE {<<0 - 1, 0>>, <<1, 0>>}
Count(list, Test(_)) == Len(SelectSeq(list, Test))

\* C9: the special moves offered to the mover are one straight jump or at
\* most two diagonals, never both kinds; the jump is offered exactly when
\* the mover faces the opponent and the edge from O to O + delta exists.
C9_JumpPreemptsDiagonals ==
    pc = "wait" =>
        LET jumps == Count(Specials, IsJump)
            diagonals == Count(Specials, IsDiagonal)
        IN  /\ jumps + diagonals = Len(Specials)
            /\ jumps <= 1
            /\ diagonals <= 2
            /\ jumps = 0 \/ diagonals = 0
            /\ jumps = 1 <=> (FacingOpponent /\ JumpEdge)
            /\ jumps = 1 =>
                  Displacement(Specials[1]) = <<2 * Delta[1], 2 * Delta[2]>>

\* a jump is offered although a side step from the opponent's cell is open
C9_Witness ==
    /\ pc = "wait"
    /\ Count(Specials, IsJump) = 1
    /\ \E d \in Sides : Plus(OpponentCell, d) \in state.graph[OpponentCell]

\* C10: nothing special is offered unless the mover faces the opponent; when
\* it does and the edge from O straight on is absent, the special moves
\* offered are, once each, the diagonals delta + side for the side steps
\* whose edge from O exists; every special move carries the name and the
\* index of its displacement in the special-move table.
C10_DiagonalsWhenJumpBlocked ==
    pc = "wait" =>
        /\ ~FacingOpponent => Specials = <<>>
        /\ (FacingOpponent /\ ~JumpEdge) =>
              ListsExactly(
                  [i \in DOMAIN Specials |-> Displacement(Specials[i])],
                  {Plus(Delta, d) : d \in
                      {e \in Sides :
                          Plus(OpponentCell, e) \in state.graph[OpponentCell]}})
        /\ \A i \in DOMAIN Specials :
              \E k \in DOMAIN blocked_movement :
                  /\ blocked_movement[k][2] = Displacement(Specials[i])
                  /\ blocked_movement[k][1] = Specials[i].name
                  /\ Specials[i].idx = Len(player_movement) + k - 1

\* the jump is blocked by a wall, not by the board's edge, and one of the
\* two diagonals is offered
C10_Witness ==
    /\ pc = "wait"
    /\ FacingOpponent
    /\ Plus(OpponentCell, Delta) \in DOMAIN state.graph
    /\ ~JumpEdge
    /\ Len(Specials) = 1

\* the normal moves in the list offered to the mover
Normals == SelectSeq(actions, LAMBDA a : a.kind = "MovementAction")
\* the four orthogonal steps
Directions == {<<0 - 1, 0>>, <<0, 1>>, <<0, 0 - 1>>, <<1, 0>>}
\* the steps d with the edge C to C + d present and C + d free of the opponent
OpenDirections ==
    {d \in Directions :
        /\ Plus(MoverCell, d) \in state.graph[MoverCell]
        /\ Plus(MoverCell, d) # OpponentCell}

\* C11: the normal moves offered to the mover at C are, once each, the
\* orthogonal steps d whose edge from C to C + d exists and whose target is
\* not the opponent's cell O; no normal move leads onto O.
C11_NormalMoves ==
    pc = "wait" =>
        /\ ListsExactly([i \in DOMAIN Normals |-> Displacement(Normals[i])],
                        OpenDirections)
        /\ \A i \in DOMAIN Normals :
              Plus(MoverCell, Displacement(Normals[i])) # OpponentCell

\* the mover faces the opponent, a wall closes another of its steps, and
\* a normal move is still offered
C11_Witness ==
    /\ pc = "wait"
    /\ FacingOpponent
    /\ \E d \in Directions :
          /\ Plus(MoverCell, d) \in DOMAIN state.graph
          /\ Plus(MoverCell, d) \notin state.graph[MoverCell]
    /\ Normals # <<>>

\* the wall actions in the list offered to the mover
OfferedWalls == SelectSeq(actions, LAMBDA a : a.kind = "WallAction")

RECURSIVE HLow(_, _, _)
HLow(s, r, c) ==
    IF c < 0 \/ <<<<r, c>>, <<r + 1, c>>>> \notin s.placed_walls
    THEN FALSE
    ELSE ~HLow(s, r, c - 1)

RECURSIVE VLow(_, _, _)
VLow(s, r, c) ==
    IF r < 0 \/ <<<<r, c>>, <<r, c + 1>>>> \notin s.placed_walls
    THEN FALSE
    ELSE ~VLow(s, r - 1, c)

PlacedWallSet(s) ==
    {HorizontalWall(s.config.N, a[1], a[2]) :
        a \in {b \in Cells(s.config.N - 1) : HLow(s, b[1], b[2])}}
    \cup {VerticalWall(s.config.N, a[1], a[2]) :
        a \in {b \in Cells(s.config.N - 1) : VLow(s, b[1], b[2])}}

\* a wall is horizontal when its first edge joins cells of two rows
IsHorizontal(w) == w.edge1[1][1] # w.edge1[2][1]
\* the wall of the other orientation at the same anchor
Perpendicular(s, w) ==
    IF IsHorizontal(w)
    THEN VerticalWall(s.config.N, w.edge1[1][1], w.edge1[1][2])
    ELSE HorizontalWall(s.config.N, w.edge1[1][1], w.edge1[1][2])

C14_CrossingOnlyAtOwnAnchor ==
    \A w \in Candidates(state) :
        wall_is_crossed(state, w) => Perpendicular(state, w) \in PlacedWallSet(state)

\* the cells of an n x n board one orthogonal step away from c
OrthogonalNeighbours(n, c) ==
    {d \in Cells(n) :
        (IF d[1] > c[1] THEN d[1] - c[1] ELSE c[1] - d[1])
            + (IF d[2] > c[2] THEN d[2] - c[2] ELSE c[2] - d[2]) = 1}

\* C16: the adjacency is defined on the cells of the board, links a cell
\* only to orthogonal in-bounds neighbours (so at most 4 of them), and is
\* symmetric; and no step taken inside a game adds an edge: every
\* neighbour list after the step is contained in the list before it.
C16_GraphShrinksSymmetric ==
    /\ [](/\ DOMAIN state.graph = Cells(state.config.N)
          /\ \A c \in DOMAIN state.graph :
                /\ state.graph[c] \subseteq
                      OrthogonalNeighbours(state.config.N, c)
                /\ Cardinality(state.graph[c]) <= 4
                /\ \A d \in state.graph[c] : c \in state.graph[d])
    /\ [][(pc \notin {"idle", "done"}) =>
              \A c \in DOMAIN state.graph :
                  state'.graph[c] \subseteq state.graph[c]]_vars

\* two walls have been placed in the running game: four edges are gone
C16_Witness ==
    /\ pc = "wait"
    /\ Cardinality(state.placed_walls) = 4
    /\ Cardinality({e \in Cells(state.config.N) \X Cells(state.config.N) :
                       e[2] \in ConstructGraph(state.config.N)[e[1]]
                       /\ e[2] \notin state.graph[e[1]]}) = 8

Identity(a) ==
    [kind  |-> a.kind, dy |-> a.dy, dx |-> a.dx,
     edges |-> IF a.kind = "WallAction"
               THEN {{a.edge1[1], a.edge1[2]}, {a.edge2[1], a.edge2[2]}}
               ELSE {}]

\* the index of a lies in the block of the layout that belongs to its kind
InOwnBlock(n, a) ==
    /\ a.idx \in 0 .. action_space(n) - 1
    /\ a.kind = "MovementAction" =>
          a.idx \in 0 .. blocked_movement_idx_start - 1
    /\ a.kind = "BlockedMovementAction" =>
          a.idx \in blocked_movement_idx_start .. wall_vertical_idx_start - 1
    /\ (a.kind = "WallAction" /\ ~IsHorizontal(a)) =>
          a.idx \in wall_vertical_idx_start .. wall_horizontal_idx_start(n) - 1
    /\ (a.kind = "WallAction" /\ IsHorizontal(a)) =>
          a.idx \in wall_horizontal_idx_start(n) .. action_space(n) - 1

\* C19: every action offered in any state is one of the fixed catalogue of
\* the board size, with the index and the name it has there; within the
\* catalogue two actions have the same index exactly when they do the same
\* thing, and the same name exactly when they do the same thing; and every
\* offered index lies inside the block of its kind.
C19_IndexAndNameIdentify ==
    pc = "wait" =>
        LET n == state.config.N
            catalogue == Catalogue(n)
        IN  /\ \A i \in DOMAIN actions :
                  /\ actions[i] \in catalogue
                  /\ InOwnBlock(n, actions[i])
            /\ \A x, y \in catalogue :
                  /\ (x.idx = y.idx) <=> (Identity(x) = Identity(y))
                  /\ (x.name = y.name) <=> (Identity(x) = Identity(y))

\* one list offers a normal move, a special move, a horizontal wall and a
\* vertical wall
C19_Witness ==
    /\ pc = "wait"
    /\ Normals # <<>>
    /\ Specials # <<>>
    /\ \E i, j \in DOMAIN OfferedWalls :
          IsHorizontal(OfferedWalls[i]) /\ ~IsHorizontal(OfferedWalls[j])

\* C15: for all positions a and b, on or off the board, the graph left by
\* remove_connection(graph, a, b) has no edge from a to b and none from b
\* to a, has the same cells, and has every other edge exactly as before;
\* when neither direction was present the graph is left as it was.  (The
\* call has no failing branch: both removals are guarded by a membership
\* test.)
C15_RemoveConnection ==
    \A a, b \in CellsAround(state.config.N) :
        LET before == state.graph
            after == remove_connection(before, a, b)
        IN  /\ ~is_edge(after, a, b)
            /\ ~is_edge(after, b, a)
            /\ DOMAIN after = DOMAIN before
            /\ \A c \in DOMAIN before :
                  after[c] = {d \in before[c] :
                                 <<c, d>> \notin {<<a, b>>, <<b, a>>}}
            /\ (~is_edge(before, a, b) /\ ~is_edge(before, b, a)) =>
                  after = before

\* two calls have been made on the 3 x 3 board and exactly one edge is gone
\* in both directions: the other call found nothing to remove
C15_Witness ==
    /\ ncalls = MaxCalls
    /\ actions = <<>>
    /\ state.config.N = 3
    /\ Cardinality({e \in Cells(3) \X Cells(3) :
                       e[2] \in ConstructGraph(3)[e[1]]
                       /\ e[2] \notin state.graph[e[1]]}) = 2

\* C18: for the board size n the layout is: player moves at 0 .. 3, special
\* moves at 4 .. 11, the vertical walls from 12 with (n-1)(n+1) slots, the
\* horizontal walls right after them with (n-1)(n+1) slots, and
\* 4 + 8 + 2 (n-1)(n+1) slots in all; the four blocks are pairwise disjoint
\* and fill the action space.
C18_ActionSpaceLayout ==
    LET n == state.config.N
        moves == 0 .. Len(player_movement) - 1
        specials == blocked_movement_idx_start ..
                        blocked_movement_idx_start + Len(blocked_movement) - 1
        vertical == wall_vertical_idx_start ..
                        wall_vertical_idx_start + wall_vertical_space(n) - 1
        horizontal == wall_horizontal_idx_start(n) ..
                        wall_horizontal_idx_start(n) + wall_horizontal_space(n) - 1
    IN  /\ moves = 0 .. 3
        /\ specials = 4 .. 11
        /\ wall_vertical_idx_start = 12
        /\ Cardinality(vertical) = (n - 1) * (n + 1)
        /\ wall_horizontal_idx_start(n) = 12 + (n - 1) * (n + 1)
        /\ Cardinality(horizontal) = (n - 1) * (n + 1)
        /\ action_space(n) = 4 + 8 + 2 * (n - 1) * (n + 1)
        /\ moves \cap specials = {} /\ moves \cap vertical = {}
        /\ moves \cap horizontal = {} /\ specials \cap vertical = {}
        /\ specials \cap horizontal = {} /\ vertical \cap horizontal = {}
        /\ moves \cup specials \cup vertical \cup horizontal
              = 0 .. action_space(n) - 1

\* on a board of another size than the configured one a horizontal and a
\* vertical wall have been built and carry indices of their own blocks
C18_Witness ==
    /\ state.config.N # Config.N
    /\ Len(actions) = 2
    /\ ~IsHorizontal(actions[1])
    /\ actions[1].idx \in 12 .. 12 + (state.config.N - 1) * (state.config.N + 1) - 1
    /\ IsHorizontal(actions[2])
    /\ actions[2].idx >= 12 + (state.config.N - 1) * (state.config.N + 1)

\* C20: two WallAction objects have the same name exactly when they sever
\* the same two edges: the name does not depend on the order in which the
\* two edges are given nor on the order of the two cells of an edge, and
\* walls severing different edges have different names.
C20_WallNameCanonical ==
    \A i, j \in DOMAIN actions :
        (actions[i].name = actions[j].name)
            <=> (Identity(actions[i]).edges = Identity(actions[j]).edges)

\* the same wall built twice, the second time with its two edges in the
\* other order and the cells of both edges swapped
C20_Witness ==
    /\ Len(actions) = 2
    /\ actions[2].edge1 = <<actions[1].edge2[2], actions[1].edge2[1]>>
    /\ actions[2].edge2 = <<actions[1].edge1[2], actions[1].edge1[1]>>
    /\ actions[1].name = actions[2].name

\* C21: every WallAction built with the index and the two edges of an offered
\* wall, the edges or their cells in any order, is equal to a member of the
\* offered list, and the turn that returns it is not ruled a forfeit.
C21_SameWallAccepted ==
    pc = "wait" =>
        \A i \in DOMAIN OfferedWalls :
            \A v \in Reordered(OfferedWalls[i]) :
                /\ Contains(actions, v)
                /\ play_single_turn(state, to_move, actions, TRUE, v, ids).winner
                      # Some(ids[1 - to_move])

\* the state a game starts from, written out for the configured board
CanonicalStart(s) ==
    /\ s.graph = [c \in Cells(Config.N) |-> OrthogonalNeighbours(Config.N, c)]
    /\ s.player_pos[0] = <<0, Config.N \div 2>>
    /\ s.goal_y[0] = Config.N - 1
    /\ s.player_pos[1] = <<Config.N - 1, Config.N \div 2>>
    /\ s.goal_y[1] = 0
    /\ s.walls_left[0] = Config.W
    /\ s.walls_left[1] = Config.W
    /\ s.placed_walls = {}

\* C22: every call of game_loop, on a fresh environment or on one whose
\* last game ended in a win, a forfeit or a draw, whatever board that game
\* left, starts from the canonical state with turn 1 and player 1 to move;
\* and this is the state the first legal list of the game is computed from.
C22_GameStartsCanonical ==
    /\ [][(pc \in {"idle", "done"} /\ pc' = "turn") =>
              /\ CanonicalStart(state')
              /\ turn' = 1
              /\ to_move' = Config.P1
              /\ running']_vars
    /\ []((pc = "turn" /\ ncalls = 0) =>
              CanonicalStart(state) /\ turn = 1 /\ to_move = Config.P1)

\* a game has ended in a draw on a board with a wall and a moved pawn: the
\* environment game_loop can be called on again
C22_Witness ==
    /\ pc = "done"
    /\ result = Some(DRAW)
    /\ state.placed_walls # {}
    /\ state.player_pos[0] # <<0, Config.N \div 2>>
    /\ ENABLED GameLoop

\* the place of a wall's anchor in the row-major scan of the anchors
AnchorRank(n, w) == w.edge1[1][1] * (n - 1) + w.edge1[1][2]

\* C23: the list the agent is offered is the value of the legal-action
\* function at the current state and mover, whatever the turn number, the
\* bots or the calls made before; in it every pawn move, normal or special,
\* comes before every wall, and the walls of one orientation follow each
\* other in the row-major order of their anchors.
C23_LegalListDeterministicOrder ==
    pc = "wait" =>
        /\ actions = get_all_legal_actions(state, to_move)
        /\ \A i, j \in DOMAIN actions :
              (actions[i].kind = "WallAction" /\ actions[j].kind # "WallAction")
                  => j < i
        /\ \A i, j \in DOMAIN actions :
              (/\ i < j
               /\ actions[i].kind = "WallAction"
               /\ actions[j].kind = "WallAction"
               /\ IsHorizontal(actions[i]) = IsHorizontal(actions[j]))
                  => AnchorRank(state.config.N, actions[i])
                        < AnchorRank(state.config.N, actions[j])

\* a list with normal and special moves and walls of both orientations,
\* offered on a board where a wall already stands
C23_Witness ==
    /\ pc = "wait"
    /\ state.placed_walls # {}
    /\ Normals # <<>>
    /\ Specials # <<>>
    /\ \E i, j \in DOMAIN OfferedWalls :
          /\ i + 1 < j
          /\ IsHorizontal(OfferedWalls[i])
          /\ ~IsHorizontal(OfferedWalls[j])

\* the pawns of P1 and P2 after 0, 1, 2, ... applied actions of that game on
\* the board of 5 x 5
LexTrace ==
    << <<<<0, 2>>, <<4, 2>>>>, <<<<1, 2>>, <<4, 2>>>>, <<<<1, 2>>, <<4, 1>>>>,
       <<<<2, 2>>, <<4, 1>>>>, <<<<2, 2>>, <<4, 0>>>>, <<<<3, 2>>, <<4, 0>>>>,
       <<<<3, 2>>, <<4, 1>>>>, <<<<4, 2>>, <<4, 1>>>> >>

\* the actions applied so far in the game
Applied == IF pc = "wait" THEN ncalls - 1 ELSE ncalls

\* C24: when both agents always answer the legal action whose name sorts
\* first and there are no walls, the game on the board of 5 x 5 ends, by a
\* pawn reaching its goal row and not by the move cap or a forfeit, within
\* N * N turns, and it is the same game every time: after k applied
\* actions the pawns stand where LexTrace says, and P1's agent wins.
C24_LexGameDecided ==
    /\ [](/\ turn <= state.config.N * state.config.N
          /\ ncalls <= state.config.N * state.config.N
          /\ result # Some(DRAW)
          /\ recv.kind = "value" => recv.in_list
          /\ pc = "done" =>
                /\ result = Some(ids[to_move])
                /\ check_win(state, to_move)
                /\ ~running
          /\ state.config.N = 5 =>
                /\ Applied + 1 \in DOMAIN LexTrace
                /\ state.player_pos
                      = [p \in Players |-> LexTrace[Applied + 1][p + 1]]
                /\ pc = "done" => result = Some(ids[Config.P1]))
    /\ <>(pc = "done")

C24_Witness ==
    /\ state.config.N = 5
    /\ state.config.W = 0
    /\ pc = "done"
    /\ result = Some(ids[Config.P1])
    /\ Applied = Len(LexTrace) - 1
    /\ turn = 4

\* the step in which game_loop takes the answer of the agent it waited for
TurnTaken == pc = "wait" /\ pc' # "wait"

\* that answer was accepted: validated against the list and applied
TurnAccepted == TurnTaken /\ recv'.kind = "value" /\ recv'.in_list /\ pc' # "raised"

\* C25: the first turn of a game is P1's, the seats then alternate P1, P2,
\* P1, P2, ..., an accepted answer applies exactly one action of the list
\* and any other step applies none, and the action moves the pawn or
\* spends a wall of the seat whose turn it is, never of the other seat.
C25_TurnOrder ==
    /\ [](pc = "wait" => to_move = (IF ncalls % 2 = 1 THEN Config.P1 ELSE Config.P2))
    /\ []((pc = "turn" /\ ncalls = 0) => to_move = Config.P1)
    /\ [][(pc = "turn" /\ pc' = "wait") => (to_move' = to_move /\ ncalls' = ncalls + 1)]_vars
    /\ [][(TurnTaken /\ pc' = "turn") => to_move' = 1 - to_move]_vars
    /\ [][IF TurnAccepted
          THEN /\ \E i \in DOMAIN actions :
                    state' = use_action(state, to_move, actions[i])
               /\ state'.player_pos[1 - to_move] = state.player_pos[1 - to_move]
               /\ state'.walls_left[1 - to_move] = state.walls_left[1 - to_move]
               /\ \/ /\ state'.player_pos[to_move] # state.player_pos[to_move]
                     /\ state'.walls_left[to_move] = state.walls_left[to_move]
                  \/ /\ state'.player_pos[to_move] = state.player_pos[to_move]
                     /\ state'.walls_left[to_move] = state.walls_left[to_move] - 1
          ELSE state' = state \/ (pc \in {"idle", "done"} /\ pc' = "turn")]_vars

C25_Witness ==
    /\ pc = "wait"
    /\ ncalls = 3
    /\ to_move = Config.P1
    /\ turn = 2
    /\ state.walls_left[Config.P2] = Config.W - 1
    /\ state.player_pos[Config.P1] # InitState(Config).player_pos[Config.P1]

\* the two edges of a wall in both directions
Severed(a) ==
    {<<a.edge1[1], a.edge1[2]>>, <<a.edge1[2], a.edge1[1]>>,
     <<a.edge2[1], a.edge2[2]>>, <<a.edge2[2], a.edge2[1]>>}

\* s2 is s with the pawn of `mover` displaced by (dy, dx) and nothing else
MoveEffect(s, s2, mover, a) ==
    /\ s2.player_pos[mover] = Plus(s.player_pos[mover], <<a.dy, a.dx>>)
    /\ s2.player_pos[mover] # s.player_pos[mover]
    /\ s2.player_pos[1 - mover] = s.player_pos[1 - mover]
    /\ s2.graph = s.graph
    /\ s2.placed_walls = s.placed_walls
    /\ s2.walls_left = s.walls_left
    /\ s2.goal_y = s.goal_y
    /\ s2.config = s.config

\* s2 is s with the two edges of the wall gone in both directions, its two
\* segments new in the ledger, one wall less for `mover` and nothing else
WallEffect(s, s2, mover, a) ==
    /\ \A e \in Severed(a) : e[2] \in s.graph[e[1]] /\ e[2] \notin s2.graph[e[1]]
    /\ DOMAIN s2.graph = DOMAIN s.graph
    /\ \A c \in DOMAIN s.graph :
            s2.graph[c] = {d \in s.graph[c] : <<c, d>> \notin Severed(a)}
    /\ s2.placed_walls = s.placed_walls \cup {a.edge1, a.edge2}
    /\ Cardinality(s2.placed_walls) = Cardinality(s.placed_walls) + 2
    /\ s2.walls_left[mover] = s.walls_left[mover] - 1
    /\ s2.walls_left[1 - mover] = s.walls_left[1 - mover]
    /\ s2.player_pos = s.player_pos
    /\ s2.goal_y = s.goal_y
    /\ s2.config = s.config

\* C26: applying a move or a special move changes only the pawn of the
\* player to move, by exactly (dy, dx); applying a wall removes exactly its
\* two edges in both directions, adds exactly its two segments to the
\* ledger and takes one wall from the player to move only, the pawns
\* staying where they are.  Stated of every action of every legal list, and
\* of the step that applies one of them.
C26_ActionEffect ==
    /\ [](pc = "wait" =>
            \A i \in DOMAIN actions :
                LET a == actions[i]
                    s2 == use_action(state, to_move, a)
                IN  IF a.kind = "WallAction"
                    THEN WallEffect(state, s2, to_move, a)
                    ELSE MoveEffect(state, s2, to_move, a))
    /\ [][(pc = "wait" /\ pc' # "wait") =>
            \E i \in DOMAIN actions :
                IF actions[i].kind = "WallAction"
                THEN WallEffect(state, state', to_move, actions[i])
                ELSE MoveEffect(state, state', to_move, actions[i])]_vars

C26_Witness ==
    /\ pc = "wait"
    /\ state.placed_walls # {}
    /\ OfferedWalls # <<>>
    /\ Specials # <<>>
    /\ Normals # <<>>

\* the seat that won the game game_loop has just returned from, when it
\* was not a draw: the mover's after an accepted answer, the other seat's
\* after a forfeit
WinnerSeat ==
    IF recv.kind = "value" /\ recv.in_list THEN to_move ELSE 1 - to_move

\* the seat bot1 was given in round i
Bot1Seat(i) == IF i % 2 = 0 THEN Config.P1 ELSE Config.P2

\* C27: n_matches plays `rounds` games between the two bot instances,
\* bot1 on seat P1 in the rounds of even index and on seat P2 in the
\* others, and after every game, whichever bot started, wins_bot1 grows by
\* 1 exactly when bot1 won that game, by 0.5 exactly when it was a draw and
\* by 0 when bot2 won (here in halves: 2, 1, 0); the value returned is the
\* tally over the number of rounds.
C27_TallyFollowsBot1 ==
    /\ [][(tour.at = "game" /\ tour'.at = "loop") =>
            /\ tour'.i = tour.i + 1
            /\ tour'.wins_bot1 - tour.wins_bot1 =
                  IF result = Some(DRAW) THEN 1
                  ELSE IF WinnerSeat = Bot1Seat(tour.i) THEN 2
                  ELSE 0]_vars
    /\ [][(tour.at = "loop" /\ tour'.at = "game") =>
            ids' = [p \in Players |-> IF p = Bot1Seat(tour.i) THEN 0 ELSE 1]]_vars
    /\ [](tour.at = "returned" => tour.i = rounds)

C27_Witness ==
    /\ tour.at = "game"
    /\ tour.i = 1
    /\ pc = "done"
    /\ result # Some(DRAW)
    /\ WinnerSeat = Bot1Seat(tour.i)
    /\ ENABLED TourScore

C29_AppliedFromListOfSameState ==
    /\ [](pc = "wait" => actions = get_all_legal_actions(state, to_move))
    /\ [][(pc = "wait" /\ pc' = "wait") =>
            (state' = state /\ actions' = actions)]_vars
    /\ [](pc # "raised")
    /\ [][(TurnTaken /\ recv'.kind = "value" /\ recv'.in_list) =>
            \E i \in DOMAIN actions :
                LET a == actions[i]
                IN  /\ state' = use_action(state, to_move, a)
                    /\ a.kind = "WallAction" =>
                          /\ EdgesExist(state, a)
                          /\ ~Crosses(state, a)
                          /\ KeepsPaths(state, a)]_vars

\* an answer the membership test let through has been applied as a wall
C29_Witness ==
    /\ pc = "turn"
    /\ recv.kind = "value"
    /\ recv.in_list
    /\ state.placed_walls # {}
    /\ to_move = Config.P2

\* a select_move call is still running although game_loop no longer waits
\* for it: its deadline has expired
Abandoned == worker.status = "running" /\ pc # "wait"

\* C30: a value an agent's worker produces after its deadline has expired
\* is discarded.  The step in which the abandoned call ends changes nothing
\* of the game: no list is consulted, recv, the state, the counters and the
\* returned winner stay as they were; after a timeout the state of that
\* game never changes again; and a later game on the same environment
\* starts from the reset state with no call outstanding, every value it
\* validates being the answer of the call submitted in that very turn.
C30_LateValueDiscarded ==
    /\ [][(Abandoned /\ worker'.status # "running") =>
            UNCHANGED <<state, turn, to_move, running, pc, ids, actions,
                        recv, result, ncalls>>]_vars
    /\ [](Abandoned => recv.kind = "timeout" /\ pc \in {"exit"})
    /\ [][(recv.kind = "timeout" /\ recv'.kind = "timeout") =>
            (state' = state /\ result' = result /\ ncalls' = ncalls)]_vars
    /\ [][(recv.kind = "timeout" /\ recv'.kind # "timeout") =>
            /\ pc = "done"
            /\ worker.status = "idle"
            /\ state' = InitState(state.config)
            /\ pc' = "turn"]_vars
    /\ [](pc = "turn" => worker = IdleWorker /\ wstate = NoneVal)
    /\ [][(recv'.kind = "value" /\ recv' # recv) =>
            (pc = "wait" /\ worker.status = "running" /\ ~Abandoned)]_vars

C30_Witness ==
    /\ recv.kind = "timeout"
    /\ pc = "done"
    /\ worker.status = "idle"
    /\ ncalls > 1
    /\ state # InitState(Config)
    /\ ENABLED GameLoop

\* the actions applied so far in the game under way: every call but the
\* one awaited, or but the one that ended in a forfeit
ActionsApplied ==
    IF pc = "wait" \/ (pc = "done" /\ Forfeited) THEN ncalls - 1 ELSE ncalls

\* of which by P1 and by P2
AppliedBy(p) == IF p = Config.P1 THEN (ActionsApplied + 1) \div 2
                                 ELSE ActionsApplied \div 2

\* the game is over: by a win, by a forfeit or by the draw of the cap
Ended ==
    /\ pc = "done"
    /\ \/ result = Some(DRAW)
       \/ result \in {Some(ids[p]) : p \in Players}

MaxRounds == IF state.config.MAX_MOVES >= 2 THEN state.config.MAX_MOVES - 1 ELSE 1

UnitSteps == {<<0 - 1, 0>>, <<1, 0>>, <<0, 0 - 1>>, <<0, 1>>}
PawnMoved == TurnTaken /\ state'.player_pos[to_move] # state.player_pos[to_move]
Landing == state'.player_pos[to_move]
Step(from, to) == <<to[1] - from[1], to[2] - from[2]>>

Recorded(c, d) == <<c, d>> \in state.placed_walls \/ <<d, c>> \in state.placed_walls
WallsPlaced == 2 * state.config.W - state.walls_left[Config.P1]
                                  - state.walls_left[Config.P2]

OnGoalRow(s, p) == s.player_pos[p][1] = s.goal_y[p]

\* C36: on a board of 2 x 2 or larger, whenever a player is asked to move
\* neither pawn stands on its own goal row. A pawn is therefore found on its
\* goal row only by the win check that follows a pawn move (normal or
\* special) of the player who moved: never after a wall placement and never
\* for the player who did not move.
C36_WonOnlyByOwnPawnMove ==
    /\ []((pc \in {"turn", "wait"} /\ state.config.N >= 2) =>
              \A p \in Players : ~OnGoalRow(state, p))
    /\ [][(TurnTaken /\ \E p \in Players : OnGoalRow(state', p)) =>
              /\ OnGoalRow(state', to_move)
              /\ ~OnGoalRow(state', 1 - to_move)
              /\ state'.player_pos[to_move] # state.player_pos[to_move]
              /\ state'.player_pos[1 - to_move] = state.player_pos[1 - to_move]
              /\ state'.placed_walls = state.placed_walls
              /\ state'.walls_left = state.walls_left
              /\ pc' \notin {"turn", "wait"}
              /\ result' = Some(ids[to_move])
              /\ running' = FALSE]_vars
    /\ [][(TurnTaken /\ state'.placed_walls # state.placed_walls) =>
              /\ \A p \in Players : ~OnGoalRow(state', p)
              /\ result' # Some(ids[to_move])]_vars

\* the second player has won by a pawn move on a board that holds a wall,
\* with the other pawn away from its own goal row
C36_Witness ==
    /\ pc = "done"
    /\ to_move = Config.P2
    /\ result = Some(ids[Config.P2])
    /\ recv.kind = "value"
    /\ recv.in_list
    /\ OnGoalRow(state, Config.P2)
    /\ ~OnGoalRow(state, Config.P1)
    /\ state.placed_walls # {}

LastRound == turn + 1 >= state.config.MAX_MOVES

\* C37: when the move that reaches the mover's goal row is made in the last
\* round the move cap allows (the round after which the turn counter would
\* reach MAX_MOVES), the game is reported as that player's win and not as a
\* draw: the turn counter is not advanced and the cap is not consulted. A
\* game reported as a draw has no pawn on its goal row.
C37_WinBeatsCap ==
    /\ [][(TurnTaken /\ LastRound /\ OnGoalRow(state', to_move)) =>
              /\ result' = Some(ids[to_move])
              /\ result' # Some(DRAW)
              /\ turn' = turn
              /\ pc' \notin {"turn", "wait"}]_vars
    /\ [](result = Some(DRAW) => \A p \in Players : ~OnGoalRow(state, p))

\* the second player has reached its goal row with the last action the cap
\* allows, under a cap of two or more, and is reported as the winner
C37_Witness ==
    /\ pc = "done"
    /\ to_move = Config.P2
    /\ LastRound
    /\ state.config.MAX_MOVES >= 2
    /\ OnGoalRow(state, Config.P2)
    /\ result = Some(ids[Config.P2])

\* C38: whenever game_loop has returned, whatever the outcome (win, forfeit
\* by timeout or crash, forfeit by an illegal choice, draw by the move cap),
\* the running flag is False; and it is True whenever an agent is asked to
\* move.
C38_RunningFlagTracksGame ==
    /\ pc = "done" => running = FALSE
    /\ pc = "wait" => running = TRUE

\* game_loop has returned a draw and the running flag is still True
C38_Witness ==
    /\ pc = "done"
    /\ result = Some(DRAW)
    /\ turn = state.config.MAX_MOVES
    /\ running = TRUE

====
